---------------------------- MODULE Spec2Model ----------------------------
(***************************************************************************)
(* Lead-capture quiz (src/script.js) and its spreadsheet webhook receiver  *)
(* (src/GOOGLE_APPS_SCRIPT.gs).                                            *)
(*                                                                         *)
(* Strings the program inspects character by character (names, zip codes,  *)
(* e-mail addresses, phone numbers) are sequences of one-character         *)
(* strings.  String literals of the program that are only stored or        *)
(* copied are kept as a sequence of one chunk (Text("Timestamp")).         *)
(* Error messages are TLA+ strings.  A JSON text is a record that either   *)
(* carries the value it serialises or is marked as not parseable.          *)
(*                                                                         *)
(* Of the console only the line that tells which branch the last handler   *)
(* took is kept.  Focus, scrolling, the progress bar, border colours and   *)
(* placeholders are presentation only and are not part of the state.       *)
(***************************************************************************)
EXTENDS Integers, Sequences, FiniteSets, TLC

(***************************************************************************)
(* Bounds of the model.                                                    *)
(***************************************************************************)
MaxCalls == 2      \* submissions started from the quiz in one session
MaxLegacy == 1     \* direct calls through sendLeadToZapier
MaxTimers == 2     \* pending timers of the homeowner question and the CTAs
MaxRows == 1       \* data rows of the two sheets together

(***************************************************************************)
(* Characters and strings.                                                 *)
(***************************************************************************)
Text(s) == <<s>>

IsDigit(c) == c \in {"0", "1", "2", "3", "4", "5", "6", "7", "8", "9"}

\* \s of a JavaScript regular expression, and the characters trim() removes
IsSpace(c) == c \in {" ", "\t"}

RECURSIVE TrimLeft(_)
TrimLeft(s) ==
    IF s # <<>> /\ IsSpace(Head(s)) THEN TrimLeft(Tail(s)) ELSE s

RECURSIVE TrimRight(_)
TrimRight(s) ==
    IF s # <<>> /\ IsSpace(s[Len(s)])
    THEN TrimRight(SubSeq(s, 1, Len(s) - 1))
    ELSE s

\* String.prototype.trim
trim(s) == TrimRight(TrimLeft(s))

\* s.split(/\s+/): every maximal run of whitespace ends the current piece
RECURSIVE splitWs(_, _)
splitWs(s, cur) ==
    IF s = <<>> THEN <<cur>>
    ELSE IF IsSpace(Head(s)) THEN <<cur>> \o splitWs(TrimLeft(s), <<>>)
    ELSE splitWs(Tail(s), Append(cur, Head(s)))

\* parts.join(' ')
RECURSIVE join(_)
join(parts) ==
    IF parts = <<>> THEN <<>>
    ELSE IF Len(parts) = 1 THEN parts[1]
    ELSE parts[1] \o <<" ">> \o join(Tail(parts))

\* phone.replace(/\D/g, '')
RECURSIVE digitsOf(_)
digitsOf(s) ==
    IF s = <<>> THEN <<>>
    ELSE IF IsDigit(Head(s)) THEN <<Head(s)>> \o digitsOf(Tail(s))
    ELSE digitsOf(Tail(s))

UpperChars ==
    <<"A", "B", "C", "D", "E", "F", "G", "H", "I", "J", "K", "L", "M",
      "N", "O", "P", "Q", "R", "S", "T", "U", "V", "W", "X", "Y", "Z">>

LowerChars ==
    <<"a", "b", "c", "d", "e", "f", "g", "h", "i", "j", "k", "l", "m",
      "n", "o", "p", "q", "r", "s", "t", "u", "v", "w", "x", "y", "z">>

toLowerChar(c) ==
    IF \E i \in 1..Len(UpperChars) : UpperChars[i] = c
    THEN LowerChars[CHOOSE i \in 1..Len(UpperChars) : UpperChars[i] = c]
    ELSE c

\* String.prototype.toLowerCase
toLowerCase(s) == [i \in 1..Len(s) |-> toLowerChar(s[i])]

\* digits.startsWith('1'), phone.startsWith('+')
startsWith(s, c) == s # <<>> /\ Head(s) = c

(***************************************************************************)
(* script.js: formatPhoneE164 and splitName.                               *)
(***************************************************************************)
\* variant: without the branch for eleven digits
formatPhoneE164_NoEleven(phone) == <<"+", "1">> \o digitsOf(phone)

formatPhoneE164(phone) ==
    LET digits == digitsOf(phone)
    IN  IF Len(digits) = 10 THEN <<"+", "1">> \o digits
        ELSE IF Len(digits) = 11 /\ startsWith(digits, "1") THEN <<"+">> \o digits
        ELSE <<"+", "1">> \o digits

\* variant: the name is split untrimmed
splitName_Untrimmed(fullName) ==
    LET parts == splitWs(fullName, <<>>)
    IN  [first_name |-> parts[1], last_name |-> join(Tail(parts))]

splitName(fullName) ==
    LET parts == splitWs(trim(fullName), <<>>)
    IN  [first_name |-> parts[1], last_name |-> join(Tail(parts))]


(***************************************************************************)
(* script.js: the format checks of handleNextStep.                         *)
(***************************************************************************)
\* /^\d{5}$/
zipRegex(value) ==
    /\ Len(value) = 5
    /\ \A i \in 1..Len(value) : IsDigit(value[i])

\* /^[^\s@]+@[^\s@]+\.[^\s@]+$/ : no whitespace, exactly one "@" with a
\* non-empty local part, and a "." inside the domain with a character on
\* each side of it
emailRegex(value) ==
    /\ \A i \in 1..Len(value) : ~IsSpace(value[i])
    /\ Cardinality({i \in 1..Len(value) : value[i] = "@"}) = 1
    /\ \E at \in 2..Len(value) :
          /\ value[at] = "@"
          /\ \E dot \in (at + 2)..(Len(value) - 1) : value[dot] = "."

PhoneClass(c) == IsDigit(c) \/ IsSpace(c) \/ c \in {"(", ")", "-"}

\* /[\d\(\)\-\s]{10,}/ : unanchored, a run of at least ten characters of
\* the class anywhere in the value
phoneRegex(value) ==
    \E i \in 1..(Len(value) - 9) : \A j \in i..(i + 9) : PhoneClass(value[j])

\* the checks of handleNextStep on the trimmed value of step stepIndex
StepValueOk(stepIndex, value) ==
    /\ value # <<>>
    /\ stepIndex = 1 => Len(value) >= 2
    /\ stepIndex = 2 => zipRegex(value)
    /\ stepIndex = 3 => emailRegex(value)
    /\ stepIndex = 4 => phoneRegex(value)

(***************************************************************************)
(* JSON values and texts.                                                  *)
(***************************************************************************)
JStr(s) == [type |-> "string", str |-> s, num |-> 0]
JNum(n) == [type |-> "number", str |-> <<>>, num |-> n]
Undefined == [type |-> "undefined", str |-> <<>>, num |-> 0]

\* JavaScript truthiness of a member value
Truthy(v) ==
    \/ v.type = "string" /\ v.str # <<>>
    \/ v.type = "number" /\ v.num # 0

\* obj[field]
Member(obj, field) == IF field \in DOMAIN obj THEN obj[field] ELSE Undefined

\* a || b
OrElse(a, b) == IF Truthy(a) THEN a ELSE b

EmptyObject == [f \in {} |-> Undefined]

JObject(fields) == [kind |-> "object", fields |-> fields]
JNull == [kind |-> "null", fields |-> EmptyObject]

\* the text JSON.stringify(value) produces
JsonText(value) == [valid |-> TRUE, value |-> value, lit |-> ""]
\* a text that is not JSON
PlainText(s) == [valid |-> FALSE, value |-> JNull, lit |-> s]

\* a JSON string literal: quotes and backslashes escaped
RECURSIVE jsonEscape(_)
jsonEscape(s) ==
    IF s = <<>> THEN <<>>
    ELSE IF Head(s) \in {"\"", "\\"} THEN <<"\\", Head(s)>> \o jsonEscape(Tail(s))
    ELSE <<Head(s)>> \o jsonEscape(Tail(s))

jsonQuote(s) == <<"\"">> \o jsonEscape(s) \o <<"\"">>

\* JSON.stringify({homeowner: ..., ab_variant: ...}) of submitLead
stringifyAnswers(homeowner, ab_variant) ==
    <<"{">> \o jsonQuote(Text("homeowner")) \o <<":">> \o jsonQuote(homeowner)
       \o <<",">> \o jsonQuote(Text("ab_variant")) \o <<":">>
       \o jsonQuote(ab_variant) \o <<"}">>

\* JSON.stringify(payload): every member of the payload is a string
stringifyPayload(payload) ==
    JsonText(JObject([f \in DOMAIN payload |-> JStr(payload[f])]))

(***************************************************************************)
(* Fixed values of the environment.                                        *)
(***************************************************************************)
\* new Date().toISOString() in the browser and in the receiver
ClientNow == Text("2024-01-01T00:00:00.000Z")
ServerNow == Text("2024-01-01T00:00:01.000Z")  \* as a payload string
\* window.location.href
PageUrl == Text("https://landing.example/")

null == "<null>"
NoAlert == "<none>"
NoLog == "<none>"
NoPrompt == "<none>"


(***************************************************************************)
(* GOOGLE_APPS_SCRIPT.gs: the receiver.                                    *)
(*                                                                         *)
(* A sheet is absent or holds its rows (the header, when written, is row   *)
(* 1) and its formatting.  The cells of the Leads sheet are JSON member    *)
(* values; the cells of the error sheet are texts.                         *)
(*                                                                         *)
(* The spreadsheet service may throw when a sheet is looked up or when a   *)
(* row is appended: a fault names the call of the invocation that throws   *)
(* ("none": no call does).                                                 *)
(***************************************************************************)
LEAD_COLUMNS ==
    <<Text("Timestamp"), Text("First Name"), Text("Last Name"), Text("Phone"),
      Text("Email"), Text("Zip Code"), Text("Quiz Answers"), Text("Source URL")>>

ERROR_COLUMNS ==
    <<"Timestamp", "Error Message", "Stack Trace", "Raw Payload">>

NoSheet ==
    [exists |-> FALSE, rows |-> <<>>, bold |-> FALSE, protected |-> FALSE]

\* the rows below the header
DataRows(sheet) == IF sheet.rows = <<>> THEN <<>> ELSE Tail(sheet.rows)

LeadsHeaderRow == [i \in 1..Len(LEAD_COLUMNS) |-> JStr(LEAD_COLUMNS[i])]
ErrorsHeaderRow == [i \in 1..Len(ERROR_COLUMNS) |-> PlainText(ERROR_COLUMNS[i])]

Faults == {"none", "getSheetByName", "appendRow"}

\* the message of the exception a failing spreadsheet call throws
ServiceError == "Service Spreadsheets failed"
\* the message of the SyntaxError of JSON.parse
ParseError == "Unexpected token in JSON"
ServerNowString == "2024-01-01T00:00:01.000Z"

\* the events doPost is invoked with
NoEvent == [present |-> FALSE, hasPostData |-> FALSE, contents |-> PlainText("")]
EventWithoutPostData ==
    [present |-> TRUE, hasPostData |-> FALSE, contents |-> PlainText("")]
PostEvent(text) == [present |-> TRUE, hasPostData |-> TRUE, contents |-> text]

\* the responses, as the objects handed to JSON.stringify
SuccessResponse ==
    [keys |-> {"success", "message", "timestamp"}, success |-> TRUE,
     status |-> null, message |-> "Lead saved successfully", error |-> null,
     timestamp |-> ServerNowString]
FailureResponse(message) ==
    [keys |-> {"success", "error"}, success |-> FALSE, status |-> null,
     message |-> null, error |-> message, timestamp |-> null]
LivenessResponse ==
    [keys |-> {"status", "message", "timestamp"}, success |-> FALSE,
     status |-> "ok", message |-> "Webhook is active. Use POST to submit leads.",
     error |-> null, timestamp |-> ServerNowString]

\* variant: the fields checked in another order
requiredPayloadFields_ZipFirst == <<"zip", "phone", "email", "first_name">>

requiredPayloadFields == <<"first_name", "email", "phone", "zip">>

\* lines 50-66 of doPost: the message of the first check that throws, null
\* when none does
PostError(e) ==
    IF ~e.present \/ ~e.hasPostData THEN "No POST data received"
    ELSE IF ~e.contents.valid THEN "Invalid JSON payload: " \o ParseError
    ELSE IF e.contents.value.kind = "null"
         THEN "Cannot read properties of null (reading 'first_name')"
    ELSE LET payload == e.contents.value.fields
             missing == {i \in 1..Len(requiredPayloadFields) :
                            ~Truthy(Member(payload, requiredPayloadFields[i]))}
         IN  IF missing = {} THEN null
             ELSE "Missing required field: "
                    \o requiredPayloadFields[CHOOSE i \in missing :
                                                \A j \in missing : i <= j]

\* lines 69-80 of doPost: get or create the Leads sheet
ensureLeadsSheet(sheet, fault) ==
    IF fault = "getSheetByName" THEN [sheet |-> sheet, threw |-> TRUE]
    ELSE IF sheet.exists THEN [sheet |-> sheet, threw |-> FALSE]
    ELSE [sheet |-> [NoSheet EXCEPT !.exists = TRUE,
                                    !.rows = <<LeadsHeaderRow>>,
                                    !.bold = TRUE,
                                    !.protected = TRUE],
          threw |-> FALSE]

\* variant: every phone is rebuilt from its digits
normalizePhone_Fallback(phone) ==
    LET digits == digitsOf(phone)
    IN  IF Len(digits) = 11 /\ startsWith(digits, "1") THEN <<"+">> \o digits
        ELSE <<"+", "1">> \o digits

\* lines 83-91 of doPost, for a phone that is a string
normalizePhone(phone) ==
    IF phone # <<>> /\ ~startsWith(phone, "+")
    THEN LET digits == digitsOf(phone)
         IN  IF Len(digits) = 10 THEN <<"+", "1">> \o digits
             ELSE IF Len(digits) = 11 /\ startsWith(digits, "1")
                  THEN <<"+">> \o digits
             ELSE phone
    ELSE phone

\* variant: phone and email in each other's column
rowData_Swapped(payload) ==
    <<OrElse(Member(payload, "timestamp"), JStr(ServerNow)),
      OrElse(Member(payload, "first_name"), JStr(<<>>)),
      OrElse(Member(payload, "last_name"), JStr(<<>>)),
      OrElse(Member(payload, "email"), JStr(<<>>)),
      JStr(normalizePhone(OrElse(Member(payload, "phone"), JStr(<<>>)).str)),
      OrElse(Member(payload, "zip"), JStr(<<>>)),
      OrElse(Member(payload, "quiz_answers"), JStr(<<>>)),
      OrElse(Member(payload, "page_url"), JStr(<<>>))>>

\* lines 94-103 of doPost
rowData(payload) ==
    <<OrElse(Member(payload, "timestamp"), JStr(ServerNow)),
      OrElse(Member(payload, "first_name"), JStr(<<>>)),
      OrElse(Member(payload, "last_name"), JStr(<<>>)),
      JStr(normalizePhone(OrElse(Member(payload, "phone"), JStr(<<>>)).str)),
      OrElse(Member(payload, "email"), JStr(<<>>)),
      OrElse(Member(payload, "zip"), JStr(<<>>)),
      OrElse(Member(payload, "quiz_answers"), JStr(<<>>)),
      OrElse(Member(payload, "page_url"), JStr(<<>>))>>

\* logError: the error sheet after the attempt to log message for event e;
\* whatever the service throws is swallowed
logError(message, e, sheet, fault) ==
    IF fault = "getSheetByName" THEN sheet
    ELSE LET opened == IF sheet.exists THEN sheet
                       ELSE [NoSheet EXCEPT !.exists = TRUE,
                                            !.rows = <<ErrorsHeaderRow>>,
                                            !.bold = TRUE]
             rawPayload == IF e.present /\ e.hasPostData THEN e.contents
                           ELSE PlainText("No payload")
             row == <<PlainText(ServerNowString), PlainText(message),
                      PlainText("Error: " \o message), rawPayload>>
         IN  IF fault = "appendRow" THEN opened
             ELSE [opened EXCEPT !.rows = Append(opened.rows, row)]

\* variant: a failure of the log write escapes the catch block
postFailed_LogThrows(message, e, leads, errors, logFault) ==
    [leads |-> leads,
     errors |-> logError(message, e, errors, logFault),
     response |-> IF logFault = "none" THEN FailureResponse(message)
                  ELSE [FailureResponse(ServiceError) EXCEPT !.keys = {}]]

\* the catch block of doPost
postFailed(message, e, leads, errors, logFault) ==
    [leads |-> leads,
     errors |-> logError(message, e, errors, logFault),
     response |-> FailureResponse(message)]

\* doPost: the two sheets after the invocation and the response object
doPost(e, leads, errors, fault, logFault) ==
    IF PostError(e) # null
    THEN postFailed(PostError(e), e, leads, errors, logFault)
    ELSE LET payload == e.contents.value.fields
             opened == ensureLeadsSheet(leads, fault)
         IN  IF opened.threw
             THEN postFailed(ServiceError, e, opened.sheet, errors, logFault)
             ELSE IF Member(payload, "phone").type # "string"
             THEN postFailed("phone.startsWith is not a function", e,
                             opened.sheet, errors, logFault)
             ELSE IF fault = "appendRow"
             THEN postFailed(ServiceError, e, opened.sheet, errors, logFault)
             ELSE [leads |-> [opened.sheet EXCEPT
                                !.rows = Append(@, rowData(payload))],
                   errors |-> errors,
                   response |-> SuccessResponse]

\* doGet
doGet == LivenessResponse


(***************************************************************************)
(* State.                                                                  *)
(***************************************************************************)
VARIABLES
    localStorage,   \* the item 'ab_test_variant' of the browser's storage
    abTestVariant,  \* window.abTestVariant
    currentStep,    \* the quiz step shown
    userData,       \* the record the quiz fills in: field -> string
    isSubmitting,   \* the in-flight flag of handleNextStep
    buttons,        \* the four .quiz-btn-next controls, in document order
    stickyTimers,   \* pending 300 ms timers of handleInitialQuestion
    ctaTimers,      \* pending 500 ms timers of the CTA buttons
    resetTimers,    \* pending 1000 ms timers of the success path, each with
                    \* the label it restores
    overlays,       \* number of #quiz-overlay elements in the page
    stickyActive,   \* quizCard has the class quiz-sticky-active
    modalOpen,      \* body has the class quiz-modal-open
    leadEvents,     \* number of fbq('track', 'Lead') events fired
    alertMsg,       \* the alert() shown by the handler that ran last
    placeholder,    \* the message that handler put into the placeholder of
                    \* the input it turned away
    consoleMsg,     \* what that handler wrote to the console about the branch
                    \* it took
    calls,          \* the invocations of submitLead, in order of their start;
                    \* one that returned keeps only the value it returned
    lastReturn,     \* the invocation that returned in the last step, with its
                    \* sink results
    fetches,        \* the HTTP requests issued by submitLead, in order
    leadsSheet,     \* the sheet "Leads"
    errorsSheet,    \* the sheet "Webhook Errors"
    exchange,       \* the last request sent to the receiver from elsewhere
                    \* (for a POST: its event, and the spreadsheet calls that
                    \* fail while it is served) and the response to it
    applied         \* a helper function applied on its own: its name, its
                    \* argument and the value it returned

loadVars == <<localStorage, abTestVariant, applied>>
quizVars ==
    <<currentStep, userData, isSubmitting, buttons, stickyTimers, ctaTimers,
      resetTimers, overlays, stickyActive, modalOpen, leadEvents>>
domVars == <<overlays, stickyActive, modalOpen, leadEvents>>
netVars == <<calls, fetches>>
sheetVars == <<leadsSheet, errorsSheet>>
outVars == <<alertMsg, consoleMsg, placeholder>>
vars ==
    <<loadVars, quizVars, outVars, netVars, lastReturn, sheetVars, exchange>>

Steps == 1..4

\* localStorage.getItem of a key that was never set
NoItem == <<>>

\* initABTest: the item stored afterwards and window.abTestVariant, pick
\* being the variant Math.random() < 0.5 selects
initABTest(stored, pick) ==
    LET variant == IF stored = NoItem THEN pick ELSE stored
    IN  [stored |-> variant, variant |-> variant]

\* no helper function has been applied on its own
NoApplication == [fn |-> "none", arg |-> <<>>, value |-> <<>>]
\* the field of userData each step fills in
StepField == <<"name", "zip", "email", "phone">>
\* the labels of the next controls in the page
ButtonLabel == <<Text("Next 1"), Text("Next 2"), Text("Next 3"), Text("Next 4")>>
SubmittingLabel == Text("Submitting...")

Put(obj, field, value) ==
    [g \in DOMAIN obj \cup {field} |-> IF g = field THEN value ELSE obj[g]]

NoReturn ==
    [call |-> 0, googleSheetsResult |-> [success |-> FALSE, error |-> "<null>"],
     zapierResult |-> [success |-> FALSE, error |-> "<null>"],
     result |-> [returned |-> FALSE, success |-> FALSE, error |-> "<null>",
                 details |-> FALSE]]

NoRequest == [e |-> NoEvent, fault |-> "none", logFault |-> "none"]
NoExchange ==
    [method |-> "none", request |-> NoRequest, response |-> LivenessResponse]

\* the page as DOMContentLoaded leaves it, no request sent
Fresh ==
    /\ placeholder = NoPrompt
    /\ currentStep = 0
    /\ userData = [f \in {} |-> <<>>]
    /\ isSubmitting = FALSE
    /\ buttons = [k \in Steps |-> [disabled |-> FALSE, text |-> ButtonLabel[k]]]
    /\ stickyTimers = 0
    /\ ctaTimers = 0
    /\ resetTimers = <<>>
    /\ overlays = 0
    /\ stickyActive = FALSE
    /\ modalOpen = FALSE
    /\ leadEvents = 0
    /\ alertMsg = NoAlert
    /\ consoleMsg = NoLog
    /\ calls = <<>>
    /\ lastReturn = NoReturn
    /\ fetches = <<>>

\* the spreadsheet without sheets, the deployment without a request
Unused ==
    /\ leadsSheet = NoSheet
    /\ errorsSheet = NoSheet
    /\ exchange = NoExchange

\* the first load of the page in a browser whose storage has no variant
Init ==
    /\ \E pick \in {<<"A">>, <<"B">>} :
          /\ localStorage = initABTest(NoItem, pick).stored
          /\ abTestVariant = initABTest(NoItem, pick).variant
    /\ applied = NoApplication
    /\ Fresh
    /\ Unused

(***************************************************************************)
(* script.js: submitLead up to its first await.                            *)
(***************************************************************************)
\* variant: the name is not checked
requiredFields_NoName == <<"zip", "email", "phone">>

requiredFields == <<"name", "zip", "email", "phone">>

\* variant: the check without the trim
FieldMissing_Untrimmed(ud, field) ==
    \/ field \notin DOMAIN ud
    \/ ud[field] = <<>>

\* !userData[field] || !userData[field].trim()
FieldMissing(ud, field) ==
    \/ field \notin DOMAIN ud
    \/ ud[field] = <<>>
    \/ trim(ud[field]) = <<>>

\* the loop of lines 43-48: the first missing field, "" when there is none
firstMissing(ud) ==
    LET missing == {i \in 1..Len(requiredFields) :
                       FieldMissing(ud, requiredFields[i])}
    IN  IF missing = {} THEN ""
        ELSE requiredFields[CHOOSE i \in missing : \A j \in missing : i <= j]

\* variant: the email is sent as it was typed
buildPayload_RawEmail(ud, variant) ==
    [first_name |-> splitName(ud["name"]).first_name,
     last_name |-> splitName(ud["name"]).last_name,
     phone |-> formatPhoneE164(ud["phone"]),
     email |-> ud["email"],
     zip |-> trim(ud["zip"]),
     quiz_answers |->
        stringifyAnswers(
            IF "homeowner" \in DOMAIN ud /\ ud["homeowner"] # <<>>
            THEN ud["homeowner"] ELSE <<"y", "e", "s">>,
            IF variant # <<>> THEN variant ELSE Text("unknown")),
     page_url |-> PageUrl,
     timestamp |-> ClientNow]

\* lines 51-66: the payload
buildPayload(ud, variant) ==
    [first_name |-> splitName(ud["name"]).first_name,
     last_name |-> splitName(ud["name"]).last_name,
     phone |-> formatPhoneE164(ud["phone"]),
     email |-> toLowerCase(trim(ud["email"])),
     zip |-> trim(ud["zip"]),
     quiz_answers |->
        stringifyAnswers(
            IF "homeowner" \in DOMAIN ud /\ ud["homeowner"] # <<>>
            THEN ud["homeowner"] ELSE <<"y", "e", "s">>,
            IF variant # <<>> THEN variant ELSE Text("unknown")),
     page_url |-> PageUrl,
     timestamp |-> ClientNow]

NoResult == [success |-> FALSE, error |-> null]
NoReply == [arrived |-> FALSE, data |-> LivenessResponse]
Pending == [returned |-> FALSE, success |-> FALSE, error |-> null,
            details |-> FALSE]

\* a call that returned: its frame is gone, the value it returned is kept
ReturnedCall(caller, result) ==
    [caller |-> caller, originalText |-> <<>>, pc |-> "done",
     payload |-> [f \in {} |-> <<>>], reply |-> NoReply,
     googleSheetsResult |-> NoResult, zapierResult |-> NoResult,
     result |-> result]

\* the value returned at line 46
blockedResult(field) ==
    [returned |-> TRUE, success |-> FALSE,
     error |-> "Missing required field: " \o field, details |-> FALSE]

\* a call suspended at the fetch of line 81
StartedCall(caller, originalText, ud, variant) ==
    [caller |-> caller, originalText |-> originalText, pc |-> "gsFetch",
     payload |-> buildPayload(ud, variant), reply |-> NoReply,
     googleSheetsResult |-> NoResult, zapierResult |-> NoResult,
     result |-> Pending]

\* variant: both requests are issued before the first await
submitLeadEnter_Parallel(caller, originalText, ud) ==
    IF firstMissing(ud) # ""
    THEN /\ calls' = Append(calls, ReturnedCall(caller,
                                         blockedResult(firstMissing(ud))))
         /\ lastReturn' = [call |-> Len(calls) + 1,
                           googleSheetsResult |-> NoResult,
                           zapierResult |-> NoResult,
                           result |-> blockedResult(firstMissing(ud))]
         /\ fetches' = fetches
    ELSE /\ calls' = Append(calls, StartedCall(caller, originalText, ud,
                                               abTestVariant))
         /\ lastReturn' = NoReturn
         /\ fetches' = fetches \o <<[call |-> Len(calls) + 1, sink |-> "sheets"],
                                    [call |-> Len(calls) + 1, sink |-> "zapier"]>>

\* submitLead from its entry to its first suspension or early return
submitLeadEnter(caller, originalText, ud) ==
    IF firstMissing(ud) # ""
    THEN /\ calls' = Append(calls, ReturnedCall(caller,
                                         blockedResult(firstMissing(ud))))
         /\ lastReturn' = [call |-> Len(calls) + 1,
                           googleSheetsResult |-> NoResult,
                           zapierResult |-> NoResult,
                           result |-> blockedResult(firstMissing(ud))]
         /\ fetches' = fetches
    ELSE /\ calls' = Append(calls, StartedCall(caller, originalText, ud,
                                               abTestVariant))
         /\ lastReturn' = NoReturn
         /\ fetches' = Append(fetches, [call |-> Len(calls) + 1,
                                        sink |-> "sheets"])


(***************************************************************************)
(* script.js: the quiz.                                                    *)
(***************************************************************************)
\* makeQuizSticky
makeQuizSticky ==
    /\ overlays' = overlays + 1
    /\ stickyActive' = TRUE
    /\ modalOpen' = TRUE

\* removeQuizSticky: getElementById finds one overlay, the first
removeQuizSticky ==
    /\ overlays' = IF overlays > 0 THEN overlays - 1 ELSE 0
    /\ stickyActive' = FALSE
    /\ modalOpen' = FALSE

\* showStep(stepIndex), apart from what makeQuizSticky did just before
showStep(stepIndex) ==
    /\ currentStep' = stepIndex
    /\ IF stepIndex = 5
       THEN /\ removeQuizSticky
            /\ leadEvents' = leadEvents + 1
       ELSE UNCHANGED domVars

\* a handler that shows no alert and logs nothing about its branch
Quiet == alertMsg' = NoAlert /\ consoleMsg' = NoLog /\ placeholder' = NoPrompt

\* a handler that returns without changing anything
Returns ==
    /\ Quiet
    /\ lastReturn' = NoReturn
    /\ UNCHANGED <<loadVars, quizVars, netVars, sheetVars, exchange>>

\* variant: the alert for 'no' is not followed by a return
handleInitialQuestion_FallsThrough(answer) ==
    /\ alertMsg' = IF answer = <<"n", "o">>
                   THEN "We primarily work with homeowners." ELSE NoAlert
    /\ consoleMsg' = NoLog
    /\ placeholder' = NoPrompt
    /\ userData' = Put(userData, "homeowner", answer)
    /\ stickyTimers' = stickyTimers + 1
    /\ lastReturn' = NoReturn
    /\ UNCHANGED <<loadVars, currentStep, isSubmitting, buttons,
                   resetTimers, domVars, netVars, sheetVars, exchange>>

\* handleInitialQuestion, with the data-answer of the option clicked; the
\* caller says what becomes of the CTA timers
handleInitialQuestion(answer) ==
    IF answer = <<"n", "o">>
    THEN /\ alertMsg' = "We primarily work with homeowners."
         /\ consoleMsg' = NoLog
         /\ placeholder' = NoPrompt
         /\ lastReturn' = NoReturn
         /\ UNCHANGED <<loadVars, currentStep, userData, isSubmitting,
                        buttons, stickyTimers, resetTimers, domVars, netVars,
                        sheetVars, exchange>>
    ELSE /\ userData' = Put(userData, "homeowner", answer)
         /\ stickyTimers' = stickyTimers + 1
         /\ Quiet
         /\ lastReturn' = NoReturn
         /\ UNCHANGED <<loadVars, currentStep, isSubmitting, buttons,
                        resetTimers, domVars, netVars, sheetVars, exchange>>

\* lines 402-412: the failure path after submitLead returned
submitFailed(originalText, error) ==
    /\ isSubmitting' = FALSE
    /\ buttons' = [buttons EXCEPT ![1] = [disabled |-> FALSE,
                                          text |-> originalText]]
    /\ alertMsg' = error
    /\ consoleMsg' = "Failed to submit lead"
    /\ placeholder' = NoPrompt
    /\ UNCHANGED <<currentStep, stickyTimers, ctaTimers, resetTimers, domVars>>

\* lines 414-428: the success path after submitLead returned
submitSucceeded(originalText) ==
    /\ resetTimers' = Append(resetTimers, originalText)
    /\ showStep(5)
    /\ Quiet
    /\ UNCHANGED <<isSubmitting, buttons, stickyTimers, ctaTimers>>

\* the number of submissions the quiz has started
QuizCalls == Cardinality({i \in 1..Len(calls) : calls[i].caller = "quiz"})

\* lines 386-400 for a valid phone: store it, enter the submitting state and
\* call submitLead; a call that returns at once resumes the handler at once
startSubmission(value) ==
    LET ud == Put(userData, "phone", value)
        originalText == buttons[1].text
    IN  /\ QuizCalls < MaxCalls
        /\ userData' = ud
        /\ submitLeadEnter("quiz", originalText, ud)
        /\ IF firstMissing(ud) # ""
           THEN submitFailed(originalText,
                             "Missing required field: " \o firstMissing(ud))
           ELSE /\ isSubmitting' = TRUE
                /\ buttons' = [buttons EXCEPT ![1] = [disabled |-> TRUE,
                                                      text |-> SubmittingLabel]]
                /\ Quiet
                /\ UNCHANGED <<currentStep, stickyTimers, ctaTimers,
                               resetTimers, domVars>>
        /\ UNCHANGED <<loadVars, sheetVars, exchange>>

\* variant: no guard
SubmissionInProgress_Never(stepIndex) == FALSE

\* lines 309-377: the message put into the placeholder of the input of step
\* stepIndex when its trimmed value is turned away
invalidPrompt(stepIndex, value) ==
    IF value = <<>>
    THEN CASE stepIndex = 1 -> "Please enter your name"
           [] stepIndex = 2 -> "Please enter your zip code"
           [] stepIndex = 3 -> "Please enter a valid email"
           [] OTHER -> "Please enter your phone number"
    ELSE CASE stepIndex = 1 -> "Name must be at least 2 characters"
           [] stepIndex = 2 -> "Please enter a valid 5-digit zip code"
           [] stepIndex = 3 -> "Please enter a valid email"
           [] OTHER -> "Please enter a valid phone number"

\* variant: the value is stored before it is validated
Rejects_StoresValue(stepIndex, value) ==
    /\ alertMsg' = NoAlert
    /\ consoleMsg' = NoLog
    /\ placeholder' = invalidPrompt(stepIndex, value)
    /\ userData' = Put(userData, StepField[stepIndex], value)
    /\ lastReturn' = NoReturn
    /\ UNCHANGED <<loadVars, currentStep, isSubmitting, buttons, stickyTimers,
                   ctaTimers, resetTimers, domVars, netVars, sheetVars,
                   exchange>>

\* the early returns of lines 309-377: the input is focused, marked and given
\* a message; the 2000 ms timer that restores the input is not observed
Rejects(stepIndex, value) ==
    /\ alertMsg' = NoAlert
    /\ consoleMsg' = NoLog
    /\ placeholder' = invalidPrompt(stepIndex, value)
    /\ lastReturn' = NoReturn
    /\ UNCHANGED <<loadVars, quizVars, netVars, sheetVars, exchange>>

\* the guard of lines 299-302
SubmissionInProgress(stepIndex) == isSubmitting /\ stepIndex = 4

\* handleNextStep(stepIndex) with raw in the input of that step
handleNextStep(stepIndex, raw) ==
    LET value == trim(raw)
    IN  IF SubmissionInProgress(stepIndex)
        THEN /\ alertMsg' = NoAlert
             /\ consoleMsg' = "Submission already in progress..."
             /\ placeholder' = NoPrompt
             /\ lastReturn' = NoReturn
             /\ UNCHANGED <<loadVars, quizVars, netVars, sheetVars,
                            exchange>>
        ELSE IF ~StepValueOk(stepIndex, value) THEN Rejects(stepIndex, value)
        ELSE IF stepIndex = 4 THEN startSubmission(value)
        ELSE /\ userData' = Put(userData, StepField[stepIndex], value)
             /\ showStep(stepIndex + 1)
             /\ Quiet
             /\ lastReturn' = NoReturn
             /\ UNCHANGED <<loadVars, isSubmitting, buttons, stickyTimers,
                            ctaTimers, resetTimers, netVars, sheetVars,
                            exchange>>


(***************************************************************************)
(* What the user may type into the inputs of steps 1 to 4.                 *)
(***************************************************************************)
\* step 1: empty, blank, too short, two tokens with spaces around them
NameInputs ==
    {<<>>,
     <<" ">>,
     <<"A">>,
     <<" ", "J", "o", " ", " ", "L", "i", " ">>}

\* step 2: empty, four digits, a letter, five digits
ZipInputs ==
    {<<>>,
     <<"1", "3", "9", "0">>,
     <<"1", "3", "9", "0", "a">>,
     <<" ", "1", "3", "9", "0", "1">>}

\* step 3: empty, no dot, a space, valid with an upper-case letter
EmailInputs ==
    {<<>>,
     <<"a", "@", "b">>,
     <<"a", " ", "@", "b", ".", "c">>,
     <<"A", "@", "b", ".", "c", " ">>}

\* step 4: empty, nine digits, ten digits as the placeholder shows them
PhoneInputs ==
    {<<>>,
     <<"6", "0", "7", "1", "2", "3", "4", "5", "6">>,
     <<"(", "6", "0", "7", ")", " ", "1", "2", "3", "-", "4", "5", "6", "7">>}

StepInputs == <<NameInputs, ZipInputs, EmailInputs, PhoneInputs>>

Yes == <<"y", "e", "s">>
No == <<"n", "o">>

(***************************************************************************)
(* The events of the page.  A step's controls can be used while that step  *)
(* is the one shown; a disabled button fires no click.                     *)
(***************************************************************************)
\* a click on an option of step 0
ClickOptionOf(answer) ==
    /\ currentStep = 0
    /\ answer = Yes => stickyTimers + ctaTimers < MaxTimers
    /\ handleInitialQuestion(answer)
    /\ ctaTimers' = ctaTimers

ClickOption == \E answer \in {Yes, No} : ClickOptionOf(answer)

\* a click on a CTA button outside the quiz card (lines 518-530)
ClickCTA ==
    IF currentStep = 0
    THEN /\ ctaTimers + stickyTimers < MaxTimers
         /\ ctaTimers' = ctaTimers + 1
         /\ Quiet
         /\ lastReturn' = NoReturn
         /\ UNCHANGED <<loadVars, currentStep, userData, isSubmitting,
                        buttons, stickyTimers, resetTimers, domVars, netVars,
                        sheetVars, exchange>>
    ELSE Returns

\* the 500 ms timer of a CTA click: firstOption.click()
CtaTimerFires ==
    /\ ctaTimers > 0
    /\ handleInitialQuestion(Yes)
    /\ ctaTimers' = ctaTimers - 1

\* the 300 ms timer of handleInitialQuestion
StickyTimerFires ==
    /\ stickyTimers > 0
    /\ stickyTimers' = stickyTimers - 1
    /\ makeQuizSticky
    /\ currentStep' = 1          \* showStep(1)
    /\ leadEvents' = leadEvents
    /\ Quiet
    /\ lastReturn' = NoReturn
    /\ UNCHANGED <<loadVars, userData, isSubmitting, buttons, ctaTimers,
                   resetTimers, netVars, sheetVars, exchange>>

\* a click on the next control of the step shown
ClickNextOf(stepIndex, raw) ==
    /\ currentStep = stepIndex
    /\ ~buttons[stepIndex].disabled
    /\ handleNextStep(stepIndex, raw)

ClickNext ==
    \E stepIndex \in Steps : \E raw \in StepInputs[stepIndex] :
        ClickNextOf(stepIndex, raw)

\* Enter in the input of the step shown
PressEnterOf(stepIndex, raw) ==
    /\ currentStep = stepIndex
    /\ handleNextStep(stepIndex, raw)

PressEnter ==
    \E stepIndex \in Steps : \E raw \in StepInputs[stepIndex] :
        PressEnterOf(stepIndex, raw)

\* variant: the callback restores the button and leaves the flag set
ResetTimerFires_KeepsFlag ==
    /\ resetTimers # <<>>
    /\ resetTimers' = Tail(resetTimers)
    /\ buttons' = [buttons EXCEPT ![1] = [disabled |-> FALSE,
                                          text |-> Head(resetTimers)]]
    /\ Quiet
    /\ lastReturn' = NoReturn
    /\ UNCHANGED <<loadVars, currentStep, userData, isSubmitting, stickyTimers,
                   ctaTimers, domVars, netVars, sheetVars, exchange>>

\* the 1000 ms timer of the success path (lines 415-422)
ResetTimerFires ==
    /\ resetTimers # <<>>
    /\ resetTimers' = Tail(resetTimers)
    /\ isSubmitting' = FALSE
    /\ buttons' = [buttons EXCEPT ![1] = [disabled |-> FALSE,
                                          text |-> Head(resetTimers)]]
    /\ Quiet
    /\ lastReturn' = NoReturn
    /\ UNCHANGED <<loadVars, currentStep, userData, stickyTimers,
                   ctaTimers, domVars, netVars, sheetVars, exchange>>


(***************************************************************************)
(* script.js: submitLead from its first await on, and the two sinks.       *)
(***************************************************************************)
\* how the fetch of the spreadsheet endpoint, and the reading of its body,
\* can end: the promise rejects, the status is not ok, the body is not
\* JSON, or the body is the receiver's reply
SheetsOutcomes == {"rejected", "status", "unparsable", "replied"}
\* how the fetch of the automation webhook can end
ZapierOutcomes == {"rejected", "status", "ok"}

FetchRejected == "Failed to fetch"
StatusNotOk == "HTTP 500: Internal Server Error"
BodyNotJson == "Unexpected token < in JSON at position 0"

\* variant: a response with an ok status counts as success
sheetsResult_StatusOnly(outcome, data) ==
    IF outcome = "rejected" THEN [success |-> FALSE, error |-> FetchRejected]
    ELSE IF outcome = "status" THEN [success |-> FALSE, error |-> StatusNotOk]
    ELSE IF outcome = "unparsable" THEN [success |-> FALSE, error |-> BodyNotJson]
    ELSE [success |-> TRUE, error |-> null]

\* lines 89-107: googleSheetsResult after the fetch ended with outcome
sheetsResult(outcome, data) ==
    IF outcome = "rejected" THEN [success |-> FALSE, error |-> FetchRejected]
    ELSE IF outcome = "status" THEN [success |-> FALSE, error |-> StatusNotOk]
    ELSE IF outcome = "unparsable" THEN [success |-> FALSE, error |-> BodyNotJson]
    ELSE IF data.success THEN [success |-> TRUE, error |-> null]
    ELSE [success |-> FALSE,
          error |-> IF data.error # null /\ data.error # "" THEN data.error
                    ELSE "Unknown error from webhook"]

\* lines 118-132: zapierResult after the fetch ended with outcome
zapierResultOf(outcome) ==
    IF outcome = "rejected" THEN [success |-> FALSE, error |-> FetchRejected]
    ELSE IF outcome = "status" THEN [success |-> FALSE, error |-> StatusNotOk]
    ELSE [success |-> TRUE, error |-> null]

\* variant: both sinks must succeed
overallSuccess_Both(googleSheetsResult, zapierResult) ==
    googleSheetsResult.success /\ zapierResult.success

\* line 135
overallSuccess(googleSheetsResult, zapierResult) ==
    googleSheetsResult.success \/ zapierResult.success

\* lines 149-158: the value submitLead returns
submitLeadResult(googleSheetsResult, zapierResult) ==
    IF ~overallSuccess(googleSheetsResult, zapierResult)
    THEN [returned |-> TRUE, success |-> FALSE,
          error |-> "Failed to save lead. Please try again or call us directly.",
          details |-> TRUE]
    ELSE [returned |-> TRUE, success |-> TRUE, error |-> null, details |-> TRUE]

\* the fault names a call that doPost makes on e ("none" otherwise): once
\* the checks of lines 50-66 fail no sheet is looked up for the lead, and
\* the error sheet is touched only on failure
FaultApplies(e, fault, logFault) ==
    /\ PostError(e) # null => fault = "none"
    /\ (/\ PostError(e) = null
        /\ fault = "none"
        /\ Member(e.contents.value.fields, "phone").type = "string")
          => logFault = "none"

\* the request of a call reaches the receiver, which runs doPost on it
GoogleSheetsReceives ==
    \E i \in 1..Len(calls) : \E fault \in Faults : \E logFault \in Faults :
        /\ calls[i].pc = "gsFetch"
        /\ ~calls[i].reply.arrived
        /\ FaultApplies(PostEvent(stringifyPayload(calls[i].payload)), fault,
                        logFault)
        /\ \E run \in {doPost(PostEvent(stringifyPayload(calls[i].payload)),
                               leadsSheet, errorsSheet, fault, logFault)} :
            /\ Len(DataRows(run.leads)) + Len(DataRows(run.errors)) <= MaxRows
            /\ leadsSheet' = run.leads
            /\ errorsSheet' = run.errors
            /\ calls' = [calls EXCEPT ![i].reply =
                            [arrived |-> TRUE, data |-> run.response]]
            /\ Quiet
            /\ lastReturn' = NoReturn
            /\ UNCHANGED <<loadVars, quizVars, fetches,
                           exchange>>

\* variant: the automation webhook is tried only when the spreadsheet failed
zapierDispatch_Fallback(i, googleSheetsResult) ==
    IF googleSheetsResult.success THEN fetches
    ELSE Append(fetches, [call |-> i, sink |-> "zapier"])

\* lines 109-116: the request to the automation webhook, issued whatever
\* googleSheetsResult has become
zapierDispatch(i, googleSheetsResult) ==
    Append(fetches, [call |-> i, sink |-> "zapier"])

\* the first await of a call ends; the call goes on to line 113 and issues
\* the request to the automation webhook
GoogleSheetsSettlesOf(i, outcome) ==
    /\ calls[i].pc = "gsFetch"
    /\ outcome = "replied" => calls[i].reply.arrived
    /\ calls' = [calls EXCEPT
                    ![i].googleSheetsResult =
                        sheetsResult(outcome, calls[i].reply.data),
                    ![i].pc = "zapFetch"]
    /\ fetches' = zapierDispatch(i, sheetsResult(outcome, calls[i].reply.data))
    /\ Quiet
    /\ lastReturn' = NoReturn
    /\ UNCHANGED <<loadVars, quizVars, sheetVars, exchange>>

GoogleSheetsSettles ==
    \E i \in 1..Len(calls) : \E outcome \in SheetsOutcomes :
        GoogleSheetsSettlesOf(i, outcome)

\* variant: the caller does not look at result.success
Resume_Unchecked(call, result) ==
    IF call.caller = "quiz"
    THEN /\ submitSucceeded(call.originalText)
         /\ UNCHANGED userData
    ELSE /\ Quiet
         /\ UNCHANGED quizVars

\* the caller of submitLead resumes with the value returned
Resume(call, result) ==
    IF call.caller = "quiz"
    THEN /\ IF result.success THEN submitSucceeded(call.originalText)
            ELSE submitFailed(call.originalText, result.error)
         /\ UNCHANGED userData
    ELSE /\ Quiet
         /\ UNCHANGED quizVars

\* the second await of a call ends; submitLead returns and its caller resumes
ZapierSettlesOf(i, outcome) ==
    LET zapierResult == zapierResultOf(outcome)
        result == submitLeadResult(calls[i].googleSheetsResult, zapierResult)
    IN  /\ calls[i].pc = "zapFetch"
        /\ calls' = [calls EXCEPT ![i] = ReturnedCall(calls[i].caller, result)]
        /\ lastReturn' = [call |-> i,
                          googleSheetsResult |-> calls[i].googleSheetsResult,
                          zapierResult |-> zapierResult,
                          result |-> result]
        /\ Resume(calls[i], result)
        /\ UNCHANGED <<loadVars, fetches, sheetVars, exchange>>

ZapierSettles ==
    \E i \in 1..Len(calls) : \E outcome \in ZapierOutcomes :
        ZapierSettlesOf(i, outcome)

(***************************************************************************)
(* script.js: sendLeadToZapier, the entry kept for older callers.          *)
(***************************************************************************)
\* a member of userData: absent, blank or filled in
LegacyInputs ==
    [name : {<<>>, <<" ">>, <<"A", "l", " ", "B">>},
     zip : {<<>>, <<" ">>, <<"1", "3", "9", "0", "1">>},
     email : {<<>>, <<" ">>, <<"a", "@", "b", ".", "c">>},
     phone : {<<>>, <<"\t">>, <<"6", "0", "7", "1", "2", "3", "4", "5", "6", "7">>}]

\* the object with the members of ud that are present (<<>> stands for an
\* absent member, except for name, where it is the empty string)
LegacyUserData(ud) ==
    [f \in {g \in DOMAIN ud : g = "name" \/ ud[g] # <<>>} |-> ud[f]]

LegacyCalls == Cardinality({i \in 1..Len(calls) : calls[i].caller = "legacy"})

sendLeadToZapierOf(ud) ==
    /\ LegacyCalls < MaxLegacy
    /\ submitLeadEnter("legacy", <<>>, ud)
    /\ Quiet
    /\ UNCHANGED <<loadVars, quizVars, sheetVars, exchange>>

sendLeadToZapier ==
    \E ud \in LegacyInputs : sendLeadToZapierOf(LegacyUserData(ud))


(***************************************************************************)
(* GOOGLE_APPS_SCRIPT.gs: requests that reach the receiver from anywhere.  *)
(***************************************************************************)
\* sample values of the receiver's requests
PHONE_E164 == <<"+", "1", "6", "0", "7", "1", "2", "3", "4", "5", "6", "7">>
PHONE_TEN == <<"6", "0", "7", "1", "2", "3", "4", "5", "6", "7">>
EMAIL == <<"t", "e", "s", "t", "@", "e", "x", "a", "m", "p", "l", "e", ".", "c", "o", "m">>
ZIP == <<"1", "3", "9", "0", "1">>

\* the payload of testWebhook
TestPayload ==
    [first_name |-> JStr(<<"T", "e", "s", "t">>),
     last_name |-> JStr(<<"U", "s", "e", "r">>),
     phone |-> JStr(PHONE_E164),
     email |-> JStr(EMAIL),
     zip |-> JStr(ZIP),
     quiz_answers |-> JStr(stringifyAnswers(<<"y", "e", "s">>, <<"A">>)),
     page_url |-> JStr(Text("https://example.com/test")),
     timestamp |-> JStr(ClientNow)]

\* obj without the members in names
Without(obj, names) == [f \in DOMAIN obj \ names |-> obj[f]]

\* only the required members, the phone as ten bare digits
BarePayload ==
    [first_name |-> JStr(<<"J", "a", "n", "e">>),
     phone |-> JStr(PHONE_TEN),
     email |-> JStr(EMAIL),
     zip |-> JStr(ZIP)]

PostBodies ==
    {PlainText("not json"),
     JsonText(JNull),
     JsonText(JObject(TestPayload)),
     JsonText(JObject(BarePayload)),
     JsonText(JObject(Without(TestPayload, {"first_name"}))),
     JsonText(JObject([Without(TestPayload, {"zip"}) EXCEPT
                          !["email"] = JStr(<<>>)])),
     JsonText(JObject(Without(TestPayload, {"phone"}))),
     JsonText(JObject(Without(TestPayload, {"zip"}))),
     JsonText(JObject([TestPayload EXCEPT !["phone"] = JNum(5551234)]))}

PostEvents ==
    {NoEvent, EventWithoutPostData} \cup {PostEvent(text) : text \in PostBodies}

\* doPost on a request e sent to the deployment by anyone
HttpPostOf(e, fault, logFault) ==
    /\ FaultApplies(e, fault, logFault)
    /\ \E run \in {doPost(e, leadsSheet, errorsSheet, fault, logFault)} :
        /\ Len(DataRows(run.leads)) + Len(DataRows(run.errors)) <= MaxRows
        /\ leadsSheet' = run.leads
        /\ errorsSheet' = run.errors
        /\ exchange' = [method |-> "POST",
                        request |-> [e |-> e, fault |-> fault,
                                     logFault |-> logFault],
                        response |-> run.response]
        /\ lastReturn' = NoReturn
        /\ UNCHANGED <<loadVars, quizVars, outVars, netVars>>

HttpPost ==
    \E e \in PostEvents : \E fault \in Faults : \E logFault \in Faults :
        HttpPostOf(e, fault, logFault)

\* variant: the GET request is recorded in the error sheet
HttpGet_Logged ==
    /\ exchange' = [method |-> "GET", request |-> NoRequest, response |-> doGet]
    /\ errorsSheet' = logError("GET", NoEvent, errorsSheet, "none")
    /\ Len(DataRows(leadsSheet)) + Len(DataRows(errorsSheet')) <= MaxRows
    /\ lastReturn' = NoReturn
    /\ UNCHANGED <<loadVars, quizVars, outVars, netVars, leadsSheet>>

\* doGet on a GET request
HttpGet ==
    /\ exchange' = [method |-> "GET", request |-> NoRequest, response |-> doGet]
    /\ lastReturn' = NoReturn
    /\ UNCHANGED <<loadVars, quizVars, outVars, netVars, sheetVars>>

(***************************************************************************)
(* The specifications: the page with its two sinks; submitLead called      *)
(* directly; the receiver under arbitrary requests.                        *)
(***************************************************************************)
Next ==
    \/ ClickOption
    \/ ClickCTA
    \/ CtaTimerFires
    \/ StickyTimerFires
    \/ ClickNext
    \/ PressEnter
    \/ ResetTimerFires
    \/ GoogleSheetsReceives
    \/ GoogleSheetsSettles
    \/ ZapierSettles

Spec == Init /\ [][Next]_vars

\* the state Fresh describes is the next state
StartsOver ==
    /\ placeholder' = NoPrompt
    /\ currentStep' = 0
    /\ userData' = [f \in {} |-> <<>>]
    /\ isSubmitting' = FALSE
    /\ buttons' = [k \in Steps |-> [disabled |-> FALSE, text |-> ButtonLabel[k]]]
    /\ stickyTimers' = 0
    /\ ctaTimers' = 0
    /\ resetTimers' = <<>>
    /\ overlays' = 0
    /\ stickyActive' = FALSE
    /\ modalOpen' = FALSE
    /\ leadEvents' = 0
    /\ alertMsg' = NoAlert
    /\ consoleMsg' = NoLog
    /\ calls' = <<>>
    /\ lastReturn' = NoReturn
    /\ fetches' = <<>>

\* variant: the variant is drawn on every load
LoadPage_Redraws ==
    /\ \E pick \in {<<"A">>, <<"B">>} :
          /\ localStorage' = pick
          /\ abTestVariant' = pick
    /\ StartsOver
    /\ UNCHANGED <<applied, sheetVars, exchange>>

\* the page is loaded again in the same browser: initABTest runs, the quiz
\* starts over, what the page before had pending is dropped
LoadPage ==
    /\ \E pick \in {<<"A">>, <<"B">>} :
          /\ localStorage' = initABTest(localStorage, pick).stored
          /\ abTestVariant' = initABTest(localStorage, pick).variant
    /\ StartsOver
    /\ UNCHANGED <<applied, sheetVars, exchange>>

\* the page over several visits
NextAB == LoadPage \/ Next
SpecAB == Init /\ [][NextAB]_vars

\* a timer that is pending fires: the event loop runs every callback that
\* setTimeout queued
Fairness ==
    /\ WF_vars(StickyTimerFires)
    /\ WF_vars(CtaTimerFires)
    /\ WF_vars(ResetTimerFires)

SpecFair == Spec /\ Fairness

\* both sink requests of a submission settle: each fetch of submitLead is
\* answered or fails
SinksSettle ==
    /\ WF_vars(GoogleSheetsSettles)
    /\ WF_vars(ZapierSettles)

SpecLive == Spec /\ Fairness /\ SinksSettle

NextLead ==
    \/ sendLeadToZapier
    \/ GoogleSheetsReceives
    \/ GoogleSheetsSettles
    \/ ZapierSettles

SpecLead == Init /\ [][NextLead]_vars

NextReceiver ==
    \/ HttpPost
    \/ HttpGet

SpecReceiver == Init /\ [][NextReceiver]_vars

(***************************************************************************)
(* The helper functions applied on their own, to any string.               *)
(***************************************************************************)
MaxDigits == 12
MaxNameLen == 5

\* n digits that start with lead
DigitRun(lead, n) ==
    [i \in 1..n |-> IF i = 1 THEN lead
                    ELSE <<"0", "7", "1", "2", "3", "4", "5", "6", "7", "8",
                           "9", "0", "1", "2">>[((i - 1) % 14) + 1]]

\* s with a hyphen after its third character
Hyphenated(s) ==
    IF Len(s) > 3 THEN SubSeq(s, 1, 3) \o <<"-">> \o SubSeq(s, 4, Len(s))
    ELSE s

\* phone numbers as they are typed or posted: up to MaxDigits digits with a
\* leading 1 or 6, plain or with a hyphen, behind "+", "(", a blank or nothing
PhoneArgs ==
    {prefix \o digits :
        prefix \in {<<>>, <<"+">>, <<"(">>, <<" ">>},
        digits \in UNION {{DigitRun(lead, n), Hyphenated(DigitRun(lead, n))} :
                             lead \in {"1", "6"}, n \in 0..MaxDigits}}

\* names: the strings of up to MaxNameLen letters, blanks and tabs
NameArgs ==
    UNION {[1..n -> {"a", "b", " ", "\t"}] : n \in 0..MaxNameLen}

PureArgs == PhoneArgs \cup NameArgs

InitPure ==
    /\ applied \in {[fn |-> "none", arg |-> arg, value |-> <<>>] :
                       arg \in PureArgs}
    /\ localStorage = <<"A">>
    /\ abTestVariant = <<"A">>
    /\ Fresh
    /\ Unused

Applies(fn, value) ==
    /\ applied' = [fn |-> fn, arg |-> applied.arg, value |-> value]
    /\ UNCHANGED <<localStorage, abTestVariant, quizVars, outVars, netVars,
                   lastReturn, sheetVars, exchange>>

ApplyFormatPhoneE164 ==
    Applies("formatPhoneE164", <<formatPhoneE164(applied.arg)>>)

ApplyNormalizePhone ==
    Applies("normalizePhone", <<normalizePhone(applied.arg)>>)

ApplySplitName ==
    Applies("splitName", <<splitName(applied.arg).first_name,
                           splitName(applied.arg).last_name>>)

NextPure == ApplyFormatPhoneE164 \/ ApplyNormalizePhone \/ ApplySplitName
SpecPure == InitPure /\ [][NextPure]_vars


(***************************************************************************)
(* Properties of the helper functions.                                     *)
(***************************************************************************)
\* the digits of s, in order
Stripped(s) == SelectSeq(s, IsDigit)

\* s has ten digits, or eleven of which the first is 1
National(s) ==
    \/ Len(Stripped(s)) = 10
    \/ Len(Stripped(s)) = 11 /\ Stripped(s)[1] = "1"

StartsWithPlus(s) == s # <<>> /\ s[1] = "+"

C13_FormatPhoneE164 ==
    applied.fn = "formatPhoneE164" =>
        LET digits == Stripped(applied.arg)
        IN  /\ Len(digits) = 10 => applied.value = <<<<"+", "1">> \o digits>>
            /\ (Len(digits) = 11 /\ digits[1] = "1") =>
                    applied.value = <<<<"+">> \o digits>>
            /\ ~National(applied.arg) =>
                    applied.value = <<<<"+", "1">> \o digits>>

\* "(160-71234567" was formatted to "+16071234567"
C13_Witness ==
    /\ applied.fn = "formatPhoneE164"
    /\ applied.arg = <<"(">> \o Hyphenated(DigitRun("1", 11))
    /\ applied.value = <<<<"+">> \o DigitRun("1", 11)>>

\* the maximal runs of characters of s that are no white space, in order
RECURSIVE Tokens(_)
Tokens(s) ==
    LET starts == {i \in 1..Len(s) :
                      ~IsSpace(s[i]) /\ (i = 1 \/ IsSpace(s[i - 1]))}
    IN  IF starts = {} THEN <<>>
        ELSE LET last == CHOOSE i \in starts : \A j \in starts : j <= i
                 end == CHOOSE k \in last..Len(s) :
                            /\ \A j \in last..k : ~IsSpace(s[j])
                            /\ k = Len(s) \/ IsSpace(s[k + 1])
             IN  Append(Tokens(SubSeq(s, 1, last - 1)), SubSeq(s, last, end))

\* the tokens with one blank between neighbours
RECURSIVE SingleSpaced(_)
SingleSpaced(tokens) ==
    IF tokens = <<>> THEN <<>>
    ELSE IF Len(tokens) = 1 THEN tokens[1]
    ELSE tokens[1] \o <<" ">> \o SingleSpaced(Tail(tokens))

\* C14: splitName returns the first token of the name as first_name and the
\* remaining tokens, in order and one blank apart, as last_name; a name of
\* one token has an empty last_name, and a name that is not blank never has
\* an empty first_name.
C14_SplitName ==
    applied.fn = "splitName" =>
        LET tokens == Tokens(applied.arg)
            first_name == applied.value[1]
            last_name == applied.value[2]
        IN  /\ tokens # <<>> =>
                  /\ first_name = tokens[1]
                  /\ first_name # <<>>
                  /\ last_name = SingleSpaced(Tail(tokens))
            /\ Len(tokens) = 1 => last_name = <<>>
            /\ tokens = <<>> => first_name = <<>> /\ last_name = <<>>

\* " a\tb " was split into "a" and "b"
C14_Witness ==
    /\ applied.fn = "splitName"
    /\ applied.arg = <<" ", "a", "\t", "b", " ">>
    /\ applied.value = <<<<"a">>, <<"b">>>>


(***************************************************************************)
(* Properties of submitLead.                                               *)
(***************************************************************************)
\* the member field of ud is absent or consists of white space only
Blank(ud, field) ==
    \/ field \notin DOMAIN ud
    \/ \A k \in 1..Len(ud[field]) : ud[field][k] \in {" ", "\t"}

\* the first blank member in the order name, zip, email, phone
FirstBlank(ud) ==
    IF Blank(ud, "name") THEN "name"
    ELSE IF Blank(ud, "zip") THEN "zip"
    ELSE IF Blank(ud, "email") THEN "email"
    ELSE IF Blank(ud, "phone") THEN "phone"
    ELSE ""

\* the number of requests call i has issued to sink
Requests(i, sink) ==
    Cardinality({k \in 1..Len(fetches) :
                    fetches[k] = [call |-> i, sink |-> sink]})

\* the calls that have not returned
LiveCalls == {i \in 1..Len(calls) : calls[i].pc # "done"}

\* C1: a call of submitLead with name, zip, email or phone absent or blank
\* returns success = false with the error 'Missing required field: <f>', f
\* the first such field in the order name, zip, email, phone, and issues no
\* request.
C1_MissingFieldBlocks ==
    [][\A in \in LegacyInputs :
          LET ud == LegacyUserData(in)
          IN  (sendLeadToZapierOf(ud) /\ FirstBlank(ud) # "") =>
                  /\ lastReturn'.call = Len(calls) + 1
                  /\ lastReturn'.result.returned
                  /\ ~lastReturn'.result.success
                  /\ lastReturn'.result.error =
                        "Missing required field: " \o FirstBlank(ud)
                  /\ calls'[Len(calls) + 1].pc = "done"
                  /\ fetches' = fetches]_vars

\* a call with a valid name and zip and a blank email was turned away before
\* any request
C1_Witness ==
    /\ lastReturn.call = 1
    /\ lastReturn.result.returned
    /\ lastReturn.result.error = "Missing required field: email"
    /\ fetches = <<>>

\* C2: the value of a call that passed validation has success = (the
\* spreadsheet sink succeeded or the automation sink succeeded); when both
\* failed it has success = false, the fixed message, and an error for each
\* sink.
C2_SuccessIfEitherSink ==
    lastReturn.result.details =>
        /\ lastReturn.result.returned
        /\ lastReturn.result.success =
              (lastReturn.googleSheetsResult.success
                 \/ lastReturn.zapierResult.success)
        /\ (~lastReturn.googleSheetsResult.success
              /\ ~lastReturn.zapierResult.success) =>
                /\ ~lastReturn.result.success
                /\ lastReturn.result.error =
                      "Failed to save lead. Please try again or call us directly."
                /\ lastReturn.googleSheetsResult.error # null
                /\ lastReturn.zapierResult.error # null

\* the spreadsheet sink failed, the automation sink succeeded, and the call
\* returned success
C2_Witness ==
    /\ lastReturn.result.details
    /\ ~lastReturn.googleSheetsResult.success
    /\ lastReturn.zapierResult.success
    /\ lastReturn.result.success

\* C3: handleNextStep(4) triggered while a submission is outstanding issues
\* no request: at most one submission is outstanding, no submission sends a
\* sink a second request, and one that is complete has sent each sink
\* exactly one.
C3_NoDuplicateSubmission ==
    /\ Cardinality(LiveCalls) <= 1
    /\ \A i \in 1..Len(calls) : \A sink \in {"sheets", "zapier"} :
          /\ Requests(i, sink) <= 1
          /\ calls[i].result.details => Requests(i, sink) = 1

\* handleNextStep(4) ran while a call was outstanding
C3_Witness ==
    /\ consoleMsg = "Submission already in progress..."
    /\ LiveCalls # {}
    /\ currentStep = 4

\* C4: step 5 is entered only when a call of submitLead returns success;
\* when a call returns failure the step shown stays as it is and the error
\* is shown in an alert.
C4_TerminalOnlyOnSuccess ==
    [][/\ (currentStep' = 5 /\ currentStep # 5) =>
             /\ lastReturn'.result.returned
             /\ lastReturn'.result.success
       /\ (lastReturn'.result.returned /\ ~lastReturn'.result.success) =>
             /\ currentStep' = currentStep
             /\ currentStep' # 5
             /\ alertMsg' # NoAlert
             /\ alertMsg' = lastReturn'.result.error]_vars

\* both sinks failed: the alert is shown and the quiz is still on step 4
C4_Witness ==
    /\ lastReturn.result.details
    /\ ~lastReturn.result.success
    /\ alertMsg = "Failed to save lead. Please try again or call us directly."
    /\ currentStep = 4

\* C5: a call that passed validation sends its request to the spreadsheet
\* endpoint at once, and its request to the automation webhook as soon as
\* the spreadsheet request has settled, whatever either outcome is.
C5_SinksIndependent ==
    \A i \in 1..Len(calls) :
        /\ (calls[i].pc # "done" \/ calls[i].result.details)
              => Requests(i, "sheets") = 1
        /\ (calls[i].pc = "zapFetch" \/ calls[i].result.details)
              => Requests(i, "zapier") = 1

\* the spreadsheet request failed and the automation request is out
C5_Witness ==
    \E i \in 1..Len(calls) :
        /\ calls[i].pc = "zapFetch"
        /\ ~calls[i].googleSheetsResult.success
        /\ calls[i].googleSheetsResult.error # null
        /\ Requests(i, "zapier") = 1

\* C6: the request to the automation webhook is issued only once the
\* spreadsheet request has settled (the two are never outstanding together),
\* and the call returns its aggregated value in the step that settles the
\* automation request.
C6_DispatchIsSequential ==
    [][/\ \A i \in 1..Len(calls') :
             Requests(i, "zapier")' >= 1 => calls'[i].pc # "gsFetch"
       /\ lastReturn'.result.details =>
             /\ calls[lastReturn'.call].pc = "zapFetch"
             /\ Requests(lastReturn'.call, "sheets") = 1
             /\ Requests(lastReturn'.call, "zapier") = 1]_vars

\* the spreadsheet request has settled and the automation request is
\* outstanding
C6_Witness ==
    \E i \in 1..Len(calls) :
        /\ calls[i].pc = "zapFetch"
        /\ Requests(i, "sheets") = 1
        /\ Requests(i, "zapier") = 1

\* C6 as stated: the request to the automation webhook does not wait for the
\* spreadsheet request, so while the spreadsheet request is outstanding the
\* automation request has been issued too.
C6_Original ==
    \A i \in 1..Len(calls) :
        calls[i].pc = "gsFetch" =>
            (Requests(i, "sheets") = 1 /\ Requests(i, "zapier") = 1)


(***************************************************************************)
(* Properties of the quiz.                                                 *)
(***************************************************************************)
HomeownerAlert == "We primarily work with homeowners."

\* C7: a click on 'no' at step 0 shows the alert and changes nothing else:
\* the step shown stays 0, no answer is stored, no timer is started and no
\* request is issued by it.
C7_NoOnlyAlerts ==
    [][ClickOptionOf(No) =>
          /\ alertMsg' = HomeownerAlert
          /\ currentStep' = 0
          /\ lastReturn' = NoReturn
          /\ UNCHANGED <<quizVars, netVars, sheetVars>>]_vars

\* 'no' was clicked and the alert is up
C7_Witness ==
    /\ alertMsg = HomeownerAlert
    /\ currentStep = 0
    /\ fetches = <<>>

\* C7 as stated: once 'no' was selected the step shown is 0 for ever and no
\* request is ever issued.
C7_Original ==
    [](alertMsg = HomeownerAlert => [](currentStep = 0 /\ fetches = <<>>))


(***************************************************************************)
(* Properties of the receiver.                                             *)
(***************************************************************************)
\* the request carries no body
BodyAbsent(e) == ~e.present \/ ~e.hasPostData

\* the parsed body has no non-empty value for field
Lacks(e, field) ==
    LET payload == e.contents.value.fields
    IN  \/ field \notin DOMAIN payload
        \/ payload[field] = JStr(<<>>)

FirstLacking(e) ==
    IF Lacks(e, "first_name") THEN "first_name"
    ELSE IF Lacks(e, "email") THEN "email"
    ELSE IF Lacks(e, "phone") THEN "phone"
    ELSE IF Lacks(e, "zip") THEN "zip"
    ELSE ""

\* the body is absent, is not JSON, or lacks a required field
Rejected(e) == BodyAbsent(e) \/ ~e.contents.valid \/ FirstLacking(e) # ""

\* the first failing condition: body present, body parses, fields present
FirstFailure(e) ==
    IF BodyAbsent(e) THEN "No POST data received"
    ELSE IF ~e.contents.valid THEN "Invalid JSON payload: " \o ParseError
    ELSE "Missing required field: " \o FirstLacking(e)

\* reading a member of the body null throws before any field is checked
NullBody(e) ==
    ~BodyAbsent(e) /\ e.contents.valid /\ e.contents.value.kind = "null"

\* after holds the data rows of before followed by row
OneRowAdded(before, after, row) == DataRows(after) = Append(DataRows(before), row)

\* exactly one row with message and the body of e was added to the error sheet
ErrorLogged(e, message) ==
    /\ Len(DataRows(errorsSheet')) = Len(DataRows(errorsSheet)) + 1
    /\ LET row == DataRows(errorsSheet')[Len(DataRows(errorsSheet'))]
       IN  /\ OneRowAdded(errorsSheet, errorsSheet', row)
           /\ row[2] = PlainText(message)
           /\ row[4] = IF BodyAbsent(e) THEN PlainText("No payload")
                       ELSE e.contents

\* C8: a POST whose body is absent, is not JSON or lacks a required field
\* is answered {success: false, error}, error naming the first failing
\* condition (for the body null: the TypeError of reading first_name);
\* unless the write to the error sheet fails, exactly one row with that
\* message and the raw body ('No payload' without a body) is added to the
\* error sheet, no row otherwise; the Leads sheet is left as it is.
C8_RejectedPostLogged ==
    [][(exchange'.method = "POST" /\ Rejected(exchange'.request.e)) =>
              LET e == exchange'.request.e
                  logFault == exchange'.request.logFault
                  message ==
                      IF NullBody(e)
                      THEN "Cannot read properties of null (reading 'first_name')"
                      ELSE FirstFailure(e)
              IN  /\ exchange'.response.keys = {"success", "error"}
                  /\ ~exchange'.response.success
                  /\ exchange'.response.error = message
                  /\ IF logFault = "none" THEN ErrorLogged(e, message)
                     ELSE DataRows(errorsSheet') = DataRows(errorsSheet)
                  /\ leadsSheet' = leadsSheet]_vars

\* a body without zip and with an empty email was turned away for its email
\* and logged
C8_Witness ==
    /\ exchange.method = "POST"
    /\ exchange.response.error = "Missing required field: email"
    /\ Len(DataRows(errorsSheet)) = 1
    /\ DataRows(errorsSheet)[1][2] = PlainText("Missing required field: email")
    /\ leadsSheet = NoSheet

\* C8 as stated: the error names the first failing condition, and exactly
\* one row with the message and the raw body is added to the error sheet.
C8_Original ==
    [][(exchange'.method = "POST" /\ Rejected(exchange'.request.e)) =>
          LET e == exchange'.request.e
          IN  /\ exchange'.response.keys = {"success", "error"}
              /\ ~exchange'.response.success
              /\ exchange'.response.error = FirstFailure(e)
              /\ ErrorLogged(e, FirstFailure(e))
              /\ leadsSheet' = leadsSheet]_vars

\* the body is a JSON object with a non-empty value for each required field
Complete(e) == ~BodyAbsent(e) /\ e.contents.valid /\ FirstLacking(e) = ""

\* ... each of them a string
CompleteStrings(e) ==
    /\ Complete(e)
    /\ \A field \in {"first_name", "email", "phone", "zip"} :
          e.contents.value.fields[field].type = "string"

\* the member field of the body, the empty string when it is absent
Cell(e, field) ==
    IF field \in DOMAIN e.contents.value.fields
    THEN e.contents.value.fields[field]
    ELSE JStr(<<>>)

\* a phone as the receiver stores it: one that starts with "+" as it is;
\* ten digits behind "+1"; eleven digits that start with 1 behind "+";
\* anything else as it is
StoredPhone(phone) ==
    LET digits == SelectSeq(phone, IsDigit)
    IN  IF phone # <<>> /\ phone[1] = "+" THEN phone
        ELSE IF Len(digits) = 10 THEN <<"+", "1">> \o digits
        ELSE IF Len(digits) = 11 /\ digits[1] = "1" THEN <<"+">> \o digits
        ELSE phone

\* the row of the body of e with phone in the phone column: absent members
\* are empty, an absent timestamp is the server's time
LeadRow(e, phone) ==
    <<IF "timestamp" \in DOMAIN e.contents.value.fields
      THEN Cell(e, "timestamp") ELSE JStr(ServerNow),
      Cell(e, "first_name"),
      Cell(e, "last_name"),
      phone,
      Cell(e, "email"),
      Cell(e, "zip"),
      Cell(e, "quiz_answers"),
      Cell(e, "page_url")>>

\* the Leads sheet held no header row before and holds the header after
HeaderFirst ==
    /\ leadsSheet'.exists
    /\ leadsSheet'.rows[1] = LeadsHeaderRow
    /\ leadsSheet.exists => leadsSheet.rows[1] = leadsSheet'.rows[1]

C10_GetIsReadOnly ==
    [][exchange'.method = "GET" =>
          /\ exchange'.response.keys = {"status", "message", "timestamp"}
          /\ exchange'.response.status = "ok"
          /\ exchange'.response.message # null
          /\ exchange'.response.timestamp # null
          /\ leadsSheet' = leadsSheet
          /\ errorsSheet' = errorsSheet]_vars

\* a GET was answered after a POST was stored
C10_Witness ==
    /\ exchange.method = "GET"
    /\ exchange.response.status = "ok"
    /\ Len(DataRows(leadsSheet)) = 1

\* the error doPost throws on e when the spreadsheet call fault fails: the
\* first of a rejected body, a failing lookup of the Leads sheet, a phone
\* that is no string, a failing append
OriginalError(e, fault) ==
    IF NullBody(e) THEN "Cannot read properties of null (reading 'first_name')"
    ELSE IF Rejected(e) THEN FirstFailure(e)
    ELSE IF fault = "getSheetByName" THEN ServiceError
    ELSE IF Cell(e, "phone").type # "string"
         THEN "phone.startsWith is not a function"
    ELSE IF fault = "appendRow" THEN ServiceError
    ELSE null

\* C11: when doPost handles a failed request and the write to the error
\* sheet fails too, the failure of the write is swallowed: the answer is
\* still {success: false, error} with the message of the original error,
\* and no row reaches the error sheet.
C11_LogFailureSwallowed ==
    [][(/\ exchange'.method = "POST"
        /\ exchange'.request.logFault # "none"
        /\ OriginalError(exchange'.request.e, exchange'.request.fault) # null) =>
          /\ exchange'.response.keys = {"success", "error"}
          /\ ~exchange'.response.success
          /\ exchange'.response.error =
                OriginalError(exchange'.request.e, exchange'.request.fault)
          /\ DataRows(errorsSheet') = DataRows(errorsSheet)]_vars

\* a POST without a body was answered although the append to the error
\* sheet failed
C11_Witness ==
    /\ exchange.method = "POST"
    /\ exchange.request.logFault = "appendRow"
    /\ exchange.response.keys = {"success", "error"}
    /\ exchange.response.error = "No POST data received"
    /\ errorsSheet.exists
    /\ DataRows(errorsSheet) = <<>>

(***************************************************************************)
(* Properties of the step sequence.                                        *)
(***************************************************************************)
\* C15: within one session step 5 is entered at most once and the 'Lead'
\* event is fired at most once (showStep fires the event on every entry of
\* step 5, so leadEvents counts both).
C15_Original == leadEvents <= 1

\* step 5 was entered a second time and a second 'Lead' event was fired
C15_Witness == currentStep = 5 /\ leadEvents = 2

\* C18: currentStep lies in 0..5, never decreases, and every change is from
\* a step to the next one.
C18_Original ==
    [][/\ currentStep' \in 0..5
       /\ currentStep' # currentStep => currentStep' = currentStep + 1]_vars

\* C20: at step 5 no overlay inserted by makeQuizSticky is left in the page
\* and the sticky and modal classes are removed.
C20_Original ==
    currentStep = 5 => overlays = 0 /\ ~stickyActive /\ ~modalOpen

\* step 5 is shown for the first time, the classes are removed, and one of
\* two overlays is still in the page
C20_Witness ==
    /\ currentStep = 5
    /\ leadEvents = 1
    /\ overlays = 1
    /\ ~stickyActive
    /\ ~modalOpen
    /\ stickyTimers = 0

(***************************************************************************)
(* Properties of the A/B variant.                                          *)
(***************************************************************************)
\* C16: over any sequence of loads that share the storage, the variant is
\* assigned on the first load, to A or B; the stored value never changes
\* afterwards, and after every load window.abTestVariant is the stored
\* value.
C16_VariantAssignedOnce ==
    /\ localStorage \in {<<"A">>, <<"B">>}
    /\ abTestVariant = localStorage
    /\ [][/\ localStorage' = localStorage
          /\ abTestVariant' = localStorage']_vars

\* the page was loaded again after a lead of variant B reached the sheet,
\* and the variant is B again
C16_Witness ==
    /\ currentStep = 0
    /\ calls = <<>>
    /\ fetches = <<>>
    /\ Len(DataRows(leadsSheet)) = 1
    /\ localStorage = <<"B">>
    /\ abTestVariant = <<"B">>

(***************************************************************************)
(* Properties of the in-flight flag.                                       *)
(***************************************************************************)
\* C17: when both sink requests settle and pending timers fire, every time
\* isSubmitting is true it becomes false again, after a failed submission
\* as well as after a successful one.
C17_FlagIsReset == isSubmitting ~> ~isSubmitting

\* a submission succeeded, step 5 is shown, and the 1000 ms callback has
\* cleared the flag and restored the button
C17_Witness ==
    /\ currentStep = 5
    /\ leadEvents = 1
    /\ ~isSubmitting
    /\ resetTimers = <<>>
    /\ buttons[1] = [disabled |-> FALSE, text |-> ButtonLabel[1]]
    /\ Len(calls) = 1

(***************************************************************************)
(* Properties of the validation of a step.                                 *)
(***************************************************************************)
\* values that are empty after trimming or fail the check of their step: a
\* name of one character; a zip of four digits, one with a letter; an email
\* without a dot after the @, one with a blank; a phone of nine digits
InvalidInputs ==
    <<{<<>>, <<" ">>, <<"A">>},
      {<<>>, <<"1", "3", "9", "0">>, <<"1", "3", "9", "0", "a">>},
      {<<>>, <<"a", "@", "b">>, <<"a", " ", "@", "b", ".", "c">>},
      {<<>>, <<"6", "0", "7", "1", "2", "3", "4", "5", "6">>}>>

\* C19: handleNextStep(k), k in 1..4, on a value that is empty after
\* trimming or fails the check of step k leaves currentStep, userData and
\* isSubmitting as they are and issues no HTTP request.
C19_InvalidValueChangesNothing ==
    [][\A k \in Steps : \A raw \in InvalidInputs[k] :
          (ClickNextOf(k, raw) \/ PressEnterOf(k, raw)) =>
              UNCHANGED <<currentStep, userData, isSubmitting, fetches,
                          calls>>]_vars

\* a name of one character was turned away at step 1: the input shows the
\* message, no name is stored, nothing was sent
C19_Witness ==
    /\ placeholder = "Name must be at least 2 characters"
    /\ currentStep = 1
    /\ "name" \notin DOMAIN userData
    /\ ~isSubmitting
    /\ fetches = <<>>

(***************************************************************************)
(* Properties of the payloads the quiz dispatches.                         *)
(***************************************************************************)
\* the state of a scanner for {"key":"value",...} after the character (or
\* the run of plain characters) c
JsonStep(q, c) ==
    CASE q = "object" -> IF c = "{" THEN "key" ELSE "bad"
      [] q \in {"key", "value"} ->
            IF c = "\"" THEN (IF q = "key" THEN "inKey" ELSE "inValue")
            ELSE "bad"
      [] q \in {"inKey", "inValue"} ->
            IF c = "\\" THEN (IF q = "inKey" THEN "escKey" ELSE "escValue")
            ELSE IF c = "\"" THEN (IF q = "inKey" THEN "colon" ELSE "more")
            ELSE q
      [] q \in {"escKey", "escValue"} ->
            IF c \in {"\"", "\\", "/", "b", "f", "n", "r", "t"}
            THEN (IF q = "escKey" THEN "inKey" ELSE "inValue")
            ELSE "bad"
      [] q = "colon" -> IF c = ":" THEN "value" ELSE "bad"
      [] q = "more" -> IF c = "," THEN "key" ELSE IF c = "}" THEN "end"
                       ELSE "bad"
      [] OTHER -> "bad"

RECURSIVE JsonScan(_, _)
JsonScan(s, q) == IF s = <<>> THEN q ELSE JsonScan(Tail(s), JsonStep(q, Head(s)))

\* s is the JSON text of an object of one or more members, each a string
IsJsonObject(s) == JsonScan(s, "object") = "end"

\* s is local@domain.tld: no white space, one @ with something before it,
\* and behind it a dot with something on either side
IsBasicEmail(s) ==
    /\ \A i \in 1..Len(s) : ~IsSpace(s[i])
    /\ Len(SelectSeq(s, LAMBDA c : c = "@")) = 1
    /\ LET at == CHOOSE i \in 1..Len(s) : s[i] = "@"
           domain == SubSeq(s, at + 1, Len(s))
       IN  /\ at > 1
           /\ \E dot \in 2..(Len(domain) - 1) : domain[dot] = "."

IsLowerCase(s) ==
    \A i \in 1..Len(s) : \A j \in 1..Len(UpperChars) : s[i] # UpperChars[j]

\* the payload of every call of the quiz that has a request outstanding or
\* still to issue
DispatchedPayloadsValid ==
    \A i \in 1..Len(calls) :
        (calls[i].caller = "quiz" /\ calls[i].pc # "done") =>
            LET payload == calls[i].payload
            IN  /\ Len(payload.zip) = 5
                /\ \A k \in 1..5 : IsDigit(payload.zip[k])
                /\ IsBasicEmail(payload.email)
                /\ IsLowerCase(payload.email)
                /\ payload.phone # <<>> /\ payload.phone[1] = "+"
                /\ IsJsonObject(payload.quiz_answers)

\* a call of the quiz issues its first request in this step
QuizDispatches ==
    /\ Len(fetches') = Len(fetches) + 1
    /\ fetches'[Len(fetches')].sink = "sheets"
    /\ calls'[fetches'[Len(fetches')].call].caller = "quiz"

\* C21: every payload the quiz dispatches to a sink has a zip of exactly 5
\* digits, an email that matches local@domain.tld and is lower-case and
\* trimmed, a phone that starts with "+" and quiz_answers that is the JSON
\* text of an object; it is built, when the first request is issued, from a
\* name of at least 2 characters that passed the check of step 1.
C21_DispatchedPayloadValid ==
    /\ []DispatchedPayloadsValid
    /\ [][QuizDispatches =>
            LET payload == calls'[fetches'[Len(fetches')].call].payload
            IN  /\ Len(userData'["name"]) >= 2
                /\ userData'["name"] = trim(userData'["name"])
                /\ payload.first_name # <<>>
                /\ payload.first_name \o
                      (IF payload.last_name = <<>> THEN <<>>
                       ELSE <<" ">> \o payload.last_name)
                        = SingleSpaced(Tokens(userData'["name"]))]_vars

\* "Jo  Li" and "A@b.c" were dispatched as Jo, Li and a@b.c, and the request
\* to the automation webhook is outstanding
C21_Witness ==
    /\ Len(calls) = 1
    /\ calls[1].caller = "quiz"
    /\ calls[1].pc = "zapFetch"
    /\ calls[1].payload.first_name = <<"J", "o">>
    /\ calls[1].payload.last_name = <<"L", "i">>
    /\ calls[1].payload.email = <<"a", "@", "b", ".", "c">>
    /\ calls[1].payload.zip = <<"1", "3", "9", "0", "1">>
    /\ calls[1].payload.phone[1] = "+"

(***************************************************************************)
(* Properties of the control of the last data-entry step.                  *)
(***************************************************************************)
\* a submission started by the quiz has not returned
SubmissionOutstanding ==
    \E i \in 1..Len(calls) : calls[i].caller = "quiz" /\ calls[i].pc # "done"

\* C22: while a submission started from step 4 is outstanding, the control
\* that is disabled is the next control of step 4, and no other; when the
\* submission has failed, that control is enabled and has its original label.
C22_Original ==
    /\ SubmissionOutstanding =>
          /\ buttons[4].disabled
          /\ \A k \in Steps \ {4} : ~buttons[k].disabled
    /\ (lastReturn.result.returned /\ ~lastReturn.result.success) =>
          buttons[4] = [disabled |-> FALSE, text |-> ButtonLabel[4]]

\* step 4 is shown and its submission is outstanding: the control of step 1
\* is disabled and labelled as submitting, the control of step 4 is as it was
C22_Witness ==
    /\ currentStep = 4
    /\ isSubmitting
    /\ SubmissionOutstanding
    /\ buttons[1] = [disabled |-> TRUE, text |-> SubmittingLabel]
    /\ buttons[4] = [disabled |-> FALSE, text |-> ButtonLabel[4]]

(***************************************************************************)
(* Properties of the client and the receiver together.                     *)
(***************************************************************************)
\* the calls of submitLead that have built a payload and not yet returned
Dispatching == {i \in 1..Len(calls) : calls[i].pc \in {"gsFetch", "zapFetch"}}

MissingFieldAnswers ==
    {"Missing required field: " \o field :
        field \in {"first_name", "email", "phone", "zip"}}

\* C23: every payload submitLead dispatches has a non-empty first_name,
\* email, phone and zip, passes the checks of doPost, and is never answered
\* with 'Missing required field'.
C23_ClientPayloadPassesReceiver ==
    \A i \in Dispatching :
        /\ \A field \in {"first_name", "email", "phone", "zip"} :
              calls[i].payload[field] # <<>>
        /\ PostError(PostEvent(stringifyPayload(calls[i].payload))) = null
        /\ calls[i].reply.arrived =>
              calls[i].reply.data.error \notin MissingFieldAnswers

\* the payload built from the name "Al B" was accepted by the receiver and
\* is the one data row of the Leads sheet
C23_Witness ==
    /\ Len(calls) = 1
    /\ calls[1].pc = "gsFetch"
    /\ calls[1].payload.first_name = <<"A", "l">>
    /\ calls[1].reply.arrived
    /\ calls[1].reply.data.success
    /\ Len(DataRows(leadsSheet)) = 1
    /\ DataRows(leadsSheet)[1][2] = JStr(<<"A", "l">>)

\* the first await of call i ends in this step
SheetsAwaitEnds(i) ==
    /\ i \in 1..Len(calls)
    /\ calls[i].pc = "gsFetch"
    /\ calls'[i].pc = "zapFetch"

\* the Leads sheet has the row doPost builds from the payload of call i
LeadStored(i) ==
    LET e == PostEvent(stringifyPayload(calls[i].payload))
        row == LeadRow(e, JStr(StoredPhone(calls[i].payload.phone)))
    IN  \E r \in 1..Len(DataRows(leadsSheet)) : DataRows(leadsSheet)[r] = row

\* C24: the client records the spreadsheet sink as succeeded only if the
\* receiver answered with an ok status and success = true in the body, that
\* is only if doPost appended the row of that payload to the Leads sheet;
\* an answer with an ok status and success = false is a failure of the
\* sink, and its error text is the error recorded for the sink.
C24_SheetsSuccessMeansStored ==
    [][\A i \in 1..Len(calls) : SheetsAwaitEnds(i) =>
          /\ calls'[i].googleSheetsResult.success =>
                /\ calls[i].reply.arrived
                /\ calls[i].reply.data.success
                /\ LeadStored(i)
          /\ (GoogleSheetsSettlesOf(i, "replied")
               /\ ~calls[i].reply.data.success) =>
                /\ ~calls'[i].googleSheetsResult.success
                /\ calls'[i].googleSheetsResult.error = calls[i].reply.data.error
                /\ calls'[i].googleSheetsResult.error # null]_vars

\* the receiver answered a valid payload with success = false because a
\* spreadsheet call failed, and the client recorded the failure with the
\* receiver's text
C24_Witness ==
    /\ Len(calls) = 1
    /\ calls[1].pc = "zapFetch"
    /\ calls[1].reply.arrived
    /\ calls[1].reply.data.keys = {"success", "error"}
    /\ ~calls[1].googleSheetsResult.success
    /\ calls[1].googleSheetsResult.error = ServiceError
    /\ DataRows(leadsSheet) = <<>>

=============================================================================
